---- MODULE Spec2Model ----
(***************************************************************************)
(* Model of src/index.js: the four license workflows of the Luarmor proxy  *)
(* (POST /api/create-key, POST /api/activate-plan, POST /api/reset-hwid,   *)
(* GET /api/key-status) running as concurrent request handlers over two    *)
(* remote systems: the Supabase "profiles" row of one user and the Luarmor *)
(* user records.  Every action is one remote effect (a row read, a row     *)
(* update, a Luarmor call) together with the handler code that runs when   *)
(* the awaited call resolves, up to the next await.  A request is taken up *)
(* at its first effect on shared state, the read of the row: its arrival   *)
(* and the token check before it touch nothing the other handlers see.     *)
(*                                                                         *)
(* Time is in milliseconds (Date.now()); ISO timestamps stored in the row  *)
(* are represented by the millisecond instant they denote.                 *)
(***************************************************************************)
EXTENDS Integers, Sequences, FiniteSets, TLC

\* ---------------------------------------------------------------- bounds
MaxCalls == 3
MaxTicks == 1
MaxQuota == 2

\* ------------------------------------------------------------- constants
NULL == -1000
NoName == ""
DaySeconds == 86400
CooldownMs == 24 * 60 * 60 * 1000
SentinelExpire == 1
Lifetime == -1
Now0 == 2500
TickMs == 2 * CooldownMs

Procs == {1, 2}

VARIABLES
  now,        \* the wall clock, ms
  profile,    \* the user's row of the profiles table
  creds,      \* Luarmor user records, by key: [alive, expire, replied]
  inv,        \* the request handlers in flight, one per slot
  ncalls,     \* number of requests received so far
  hist        \* history of the run, read by the properties only

vars == <<now, profile, creds, inv, ncalls, hist>>

\* ------------------------------------------------------- data and helpers

\* A row of the profiles table as getProfile selects it.
ProfileRow(key, status, name, expires, resets, last) ==
  [ luarmor_key |-> key, plan_status |-> status, plan_name |-> name,
    plan_expires_at |-> expires, hwid_resets_remaining |-> resets,
    last_hwid_reset |-> last ]

\* getProfile returned null: no row, or the select failed.
NoProfile == ProfileRow(NULL, "none", NoName, NULL, NULL, NULL)

\* Outcomes of one luarmorRequest:
\*   ok        Luarmor applied the request and replied success: true
\*   nosuccess Luarmor refused the request and replied success: false
\*   unsent    fetch rejected before Luarmor applied anything (throws)
\*   lost      Luarmor applied the request, the reply never arrived or did
\*             not parse (fetch or response.json() throws)
LuarmorOutcomes == {"ok", "nosuccess", "unsent", "lost"}
Applied(o) == o \in {"ok", "lost"}
Threw(o) == o \in {"unsent", "lost"}
DataSuccess(o) == o = "ok"

\* Outcomes of a supabase select / update: data or an error object.
DbOutcomes == {"ok", "err"}
GetProfile(o) == IF o = "ok" THEN profile ELSE NoProfile

\* Outcomes of supabase.auth.getUser in authenticateUser.
AuthOutcomes == {"ok", "invalid", "throw"}

\* new Date(seconds * 1000).toISOString(), as the instant it denotes
ToISO(sec) == sec * 1000
\* Math.floor(new Date(iso).getTime() / 1000)
ToUnix(ms) == ms \div 1000

Response(status, error) ==
  [ status |-> status, error |-> error, key |-> NULL, expires_at |-> NULL,
    resets_remaining |-> NULL, plan_status |-> "none" ]
NoResponse == Response(0, "")

Idle ==
  [ pc |-> "idle", kind |-> "none", t0 |-> NULL, prof |-> NoProfile,
    userKey |-> NULL, body |-> [plan_name |-> NoName, plan_days |-> 0],
    newExp |-> NULL, nowMs |-> NULL, newRem |-> NULL, stamp |-> NULL,
    calls |-> 0, writes |-> 0, ck |-> NULL, lu |-> "none", db |-> "none",
    patched |-> NULL, resp |-> NoResponse ]

\* Fields of a handler: pc, kind, the locals of the handler (prof, userKey,
\* body, nowMs = Date.now() as read, newExp = newExpireTimestamp, newRem =
\* newResetsRemaining, stamp = new Date()), its response, and a record of
\* what it did: calls = Luarmor requests issued, writes = profiles updates
\* issued, ck = the key Luarmor created for it, lu / db = outcome of its
\* latest Luarmor request / profiles update, patched = the auth_expire
\* Luarmor applied for it.

Running(q) == inv[q].pc \notin {"idle", "done"}

\* A response is delivered to its client as soon as the handler returns:
\* nothing else happens while a slot holds a response (see Return).
Quiet == \A q \in Procs : inv[q].pc # "done"
At(p, label) == Quiet /\ inv[p].pc = label

CanStart(p) == /\ At(p, "idle")
               /\ ncalls < MaxCalls

\* t0, the time the request is taken up, is kept for reset requests only (the
\* cooldown is the one rule stated in terms of it).
Begin(kind) ==
  [Idle EXCEPT !.kind = kind, !.t0 = IF kind = "reset" THEN now ELSE NULL]

\* The response leaves; the slot is free for the next request.
Return(p) ==
  /\ inv[p].pc = "done"
  /\ inv' = [inv EXCEPT ![p] = Idle]
  /\ hist' = IF inv[p].kind = "reset" /\ inv[p].resp.status = 200
               THEN [hist EXCEPT !.nresets = @ + 1, !.lastOk = now]
             ELSE IF inv[p].kind = "activate" /\ inv[p].resp.status = 200
               THEN [hist EXCEPT !.lastAct = [prof |-> inv[p].prof,
                                              days |-> inv[p].body.plan_days,
                                              newExp |-> inv[p].newExp]]
               ELSE hist
  /\ UNCHANGED <<now, profile, creds, ncalls>>

\* res.status(...).json(...): the handler returns
Finish(r, resp) == [r EXCEPT !.pc = "done", !.resp = resp]

TypeOK ==
  /\ now \in Nat
  /\ ncalls \in 0..MaxCalls
  /\ \A p \in Procs : inv[p].pc \in
       {"idle", "done", "p_create", "p_patch", "p_delete", "p_write",
        "a_patch", "a_write", "r_reset", "r_write", "g_write"}

\* A registered user: either before any key was created, or right after a
\* first create-key request succeeded (key 1, expired, saved in the row).
Init ==
  /\ now = Now0
  /\ \E k \in {NULL} \cup 0..MaxQuota, keyed \in BOOLEAN :
       /\ profile = ProfileRow(IF keyed THEN 1 ELSE NULL, "inactive", NoName,
                               NULL, k, NULL)
       /\ creds = IF keyed THEN <<[alive |-> TRUE, expire |-> SentinelExpire,
                                   replied |-> TRUE]>>
                           ELSE <<>>
       /\ hist = [ k0 |-> k, provOverlap |-> FALSE, nresets |-> 0,
                   lastOk |-> NULL, activated |-> {},
                   lastAct |-> [prof |-> NoProfile, days |-> 0, newExp |-> NULL] ]
  /\ inv = [p \in Procs |-> Idle]
  /\ ncalls = 0

\* ------------------------------------------------------------- the clock
\* The clock starts off a whole second (Math.floor in l. 270 and 275 rounds)
\* and advances two days at a time: past the cooldown of a reset, and to the
\* second in which a two-day plan bought at the previous instant runs out.
Ticks == (now - Now0) \div TickMs

Tick ==
  /\ Quiet
  /\ Ticks < MaxTicks
  /\ now' = now + TickMs
  /\ UNCHANGED <<profile, creds, inv, ncalls, hist>>

\* -------------------------------------------- authenticateUser (l. 53-84)
\* The response of a user route whose bearer token was not verified.
AuthRejected(kind, a) ==
  IF a = "invalid"
    THEN Finish(Begin(kind), Response(401, "Invalid or expired token"))
    ELSE Finish(Begin(kind), Response(500, "Authentication service error"))

\* --------------------------------------- POST /api/create-key (l. 140-217)
\* l. 153: a key already exists
HasKey(prof) == prof.luarmor_key # NULL

\* l. 143-164: getProfile resolved; short-circuit or issue POST /users
ProvOnProfile(r0, prof) ==
  LET r == [r0 EXCEPT !.prof = prof]
  IN IF prof = NoProfile
       THEN Finish(r, Response(404, "Profile not found"))
     ELSE IF HasKey(prof)
       THEN Finish(r, [Response(200, "") EXCEPT !.key = prof.luarmor_key])
     ELSE [r EXCEPT !.pc = "p_create", !.calls = @ + 1]

\* l. 140-164: the request arrives, the token is verified, the row is read
StartProvision(p) ==
  /\ CanStart(p)
  /\ ncalls' = ncalls + 1
  /\ \E a \in AuthOutcomes, o \in DbOutcomes :
       inv' = [inv EXCEPT ![p] =
         IF a # "ok" THEN AuthRejected("provision", a)
                     ELSE ProvOnProfile(Begin("provision"), GetProfile(o))]
  /\ hist' = [hist EXCEPT !.provOverlap =
                @ \/ \E q \in Procs \ {p} : inv[q].kind = "provision" /\ Running(q)]
  /\ UNCHANGED <<now, profile, creds>>

\* l. 162-181: POST /users resolves; a new key has a lifetime expiry.
\* replied records whether the handler received the key (createResult).
ProvCreate(p) ==
  /\ At(p, "p_create")
  /\ \E o \in LuarmorOutcomes :
       LET k == Len(creds) + 1
           r == IF Applied(o) THEN [inv[p] EXCEPT !.ck = k] ELSE inv[p]
       IN /\ creds' = IF Applied(o)
                        THEN Append(creds, [alive |-> TRUE, expire |-> Lifetime,
                                            replied |-> DataSuccess(o)])
                        ELSE creds
          /\ inv' = [inv EXCEPT ![p] =
               IF Threw(o)
                 THEN Finish([r EXCEPT !.lu = o], Response(500, "Internal server error"))
               ELSE IF ~DataSuccess(o)
                 THEN Finish([r EXCEPT !.lu = o],
                             Response(502, "Failed to create license key"))
               ELSE [r EXCEPT !.userKey = k, !.pc = "p_patch", !.calls = @ + 1,
                              !.lu = o]]
  /\ UNCHANGED <<now, profile, ncalls, hist>>

\* (mutant of PatchCred: Luarmor drops the PATCH)
PatchCred_Dropped(k, e, o) == creds

\* PATCH /users at Luarmor: sets auth_expire of a live key
PatchCred(k, e, o) ==
  IF Applied(o) /\ creds[k].alive THEN [creds EXCEPT ![k].expire = e] ELSE creds

\* DELETE /users at Luarmor
DeleteCred(k, o) ==
  IF Applied(o) THEN [creds EXCEPT ![k].alive = FALSE] ELSE creds

\* l. 178-198: PATCH auth_expire: 1 resolves; roll back or save the key
ProvPatch(p) ==
  /\ At(p, "p_patch")
  /\ \E o \in LuarmorOutcomes :
       /\ creds' = PatchCred(inv[p].userKey, SentinelExpire, o)
       /\ inv' = [inv EXCEPT ![p] =
            IF Threw(o)
              THEN Finish([@ EXCEPT !.lu = o], Response(500, "Internal server error"))
            ELSE IF ~DataSuccess(o)
              THEN [@ EXCEPT !.pc = "p_delete", !.calls = @ + 1, !.lu = o]
            ELSE [@ EXCEPT !.pc = "p_write", !.writes = @ + 1, !.lu = o]]
  /\ UNCHANGED <<now, profile, ncalls, hist>>

\* l. 185-191: the rollback DELETE resolves; its result is not inspected
ProvDelete(p) ==
  /\ At(p, "p_delete")
  /\ \E o \in LuarmorOutcomes :
       /\ creds' = DeleteCred(inv[p].userKey, o)
       /\ inv' = [inv EXCEPT ![p] =
            IF Threw(o)
              THEN Finish([@ EXCEPT !.lu = o], Response(500, "Internal server error"))
              ELSE Finish([@ EXCEPT !.lu = o],
                          Response(502, "Failed to configure license key"))]
  /\ UNCHANGED <<now, profile, ncalls, hist>>

\* l. 195-212: the profiles update resolves
ProvWrite(p) ==
  /\ At(p, "p_write")
  /\ \E o \in DbOutcomes :
       /\ profile' = IF o = "ok"
                       THEN [profile EXCEPT !.luarmor_key = inv[p].userKey,
                                            !.plan_status = "inactive"]
                       ELSE profile
       /\ inv' = [inv EXCEPT ![p] =
            IF o # "ok"
              THEN Finish([@ EXCEPT !.db = o],
                          Response(500, "Failed to save key in database"))
              ELSE Finish([@ EXCEPT !.db = o],
                          [Response(201, "") EXCEPT !.key = inv[p].userKey])]
  /\ UNCHANGED <<now, creds, ncalls, hist>>

Provision(p) ==
  \/ StartProvision(p)
  \/ ProvCreate(p)
  \/ ProvPatch(p)
  \/ ProvDelete(p)
  \/ ProvWrite(p)

\* ------------------------------------- POST /api/activate-plan (l. 236-328)
\* Request bodies of the payment webhook (user_id is the modelled user).
Bodies == { [plan_name |-> "gold", plan_days |-> 2],
            [plan_name |-> "free", plan_days |-> 0],
            [plan_name |-> "refund", plan_days |-> -1] }

\* l. 246: !user_id || !plan_name || !plan_days
MissingFields(body) == body.plan_name = NoName \/ body.plan_days = 0

\* l. 253: typeof plan_days !== "number" || plan_days < 1
BadDays(body) == body.plan_days < 1

\* (mutant of BaseTimestamp: the remaining balance is never carried over)
BaseTimestamp_FromNow(prof, nowUnix) == nowUnix

\* l. 271-279: the timestamp the new plan is counted from
BaseTimestamp(prof, nowUnix) ==
  IF prof.plan_status = "active" /\ prof.plan_expires_at # NULL
       /\ ToUnix(prof.plan_expires_at) > nowUnix
    THEN ToUnix(prof.plan_expires_at)
    ELSE nowUnix

\* (mutant of NewExpireTimestamp: the days of the plan are counted twice)
NewExpireTimestamp_Doubled(prof, nowUnix, days) ==
  BaseTimestamp(prof, nowUnix) + 2 * days * DaySeconds

\* l. 281
NewExpireTimestamp(prof, nowUnix, days) ==
  BaseTimestamp(prof, nowUnix) + days * DaySeconds

\* (mutant of ActivatePatchOk: the success flag is not inspected)
ActivatePatchOk_Unchecked(o) == TRUE

\* l. 289: the PATCH is taken to have succeeded
ActivatePatchOk(o) == DataSuccess(o)

\* l. 260-287: getProfile resolved; compute the expiry, issue the PATCH
ActOnProfile(r0, prof) ==
  LET r == [r0 EXCEPT !.prof = prof]
      nowUnix == now \div 1000
  IN IF prof = NoProfile \/ ~HasKey(prof)
       THEN Finish(r, Response(404, "User or license key not found"))
       ELSE [r EXCEPT !.pc = "a_patch", !.calls = @ + 1,
                      !.nowMs = now,
                      !.newExp = NewExpireTimestamp(prof, nowUnix,
                                                    r.body.plan_days)]

\* l. 236-287: the webhook request arrives; secret and body are validated;
\* the row is read
StartActivate(p) ==
  /\ CanStart(p)
  /\ ncalls' = ncalls + 1
  /\ \E secretOk \in BOOLEAN, body \in Bodies, o \in DbOutcomes :
       LET r == [Begin("activate") EXCEPT !.body = body]
       IN inv' = [inv EXCEPT ![p] =
            IF ~secretOk
              THEN Finish(Begin("activate"), Response(403, "Unauthorized"))
            ELSE IF MissingFields(body)
              THEN Finish(r, Response(400, "Missing required fields"))
            ELSE IF BadDays(body)
              THEN Finish(r, Response(400, "plan_days must be a positive integer"))
            ELSE ActOnProfile(r, GetProfile(o))]
  /\ UNCHANGED <<now, profile, creds, hist>>

\* l. 284-308: the PATCH resolves; on success issue the profiles update
ActPatch(p) ==
  /\ At(p, "a_patch")
  /\ \E o \in LuarmorOutcomes :
       /\ creds' = PatchCred(inv[p].prof.luarmor_key, inv[p].newExp, o)
       /\ inv' = [inv EXCEPT ![p] =
            LET r == [@ EXCEPT !.lu = o,
                                !.patched = IF Applied(o) THEN inv[p].newExp ELSE NULL]
            IN IF Threw(o)
                 THEN Finish(r, Response(500, "Internal server error"))
               ELSE IF ~ActivatePatchOk(o)
                 THEN Finish(r, Response(502, "Failed to activate plan on Luarmor"))
               ELSE [r EXCEPT !.pc = "a_write", !.writes = @ + 1]]
       /\ hist' = IF Applied(o)
                    THEN [hist EXCEPT !.activated = @ \cup {inv[p].prof.luarmor_key}]
                    ELSE hist
  /\ UNCHANGED <<now, profile, ncalls>>

\* l. 301-323: the profiles update resolves
ActWrite(p) ==
  /\ At(p, "a_write")
  /\ \E o \in DbOutcomes :
       LET expiresAtISO == ToISO(inv[p].newExp)
       IN /\ profile' = IF o = "ok"
                          THEN [profile EXCEPT !.plan_name = inv[p].body.plan_name,
                                               !.plan_status = "active",
                                               !.plan_expires_at = expiresAtISO]
                          ELSE profile
          /\ inv' = [inv EXCEPT ![p] =
               IF o # "ok"
                 THEN Finish([@ EXCEPT !.db = o], Response(500,
                        "Plan activated on Luarmor but database update failed"))
                 ELSE Finish([@ EXCEPT !.db = o],
                             [Response(200, "") EXCEPT !.expires_at = expiresAtISO])]
  /\ UNCHANGED <<now, creds, ncalls, hist>>

Activate(p) ==
  \/ StartActivate(p)
  \/ ActPatch(p)
  \/ ActWrite(p)

\* ---------------------------------------- POST /api/reset-hwid (l. 339-406)
\* (mutant of QuotaExhausted: the comparison is strict)
QuotaExhausted_Strict(prof) ==
  prof.hwid_resets_remaining # NULL /\ prof.hwid_resets_remaining < 0

\* (mutant of QuotaExhausted: the counter is never looked at)
QuotaExhausted_Never(prof) == FALSE

\* l. 349
QuotaExhausted(prof) ==
  prof.hwid_resets_remaining # NULL /\ prof.hwid_resets_remaining <= 0

\* l. 357-361
CooldownActive(prof, t) ==
  prof.last_hwid_reset # NULL /\ t - prof.last_hwid_reset < CooldownMs

\* l. 386-387
NewResetsRemaining(prof) ==
  IF prof.hwid_resets_remaining # NULL THEN prof.hwid_resets_remaining - 1 ELSE NULL

\* (mutant of ResetOk: the success flag is not inspected)
ResetOk_Unchecked(o) == TRUE

\* l. 376: the reset is taken to have succeeded
ResetOk(o) == DataSuccess(o)

\* l. 342-374: getProfile resolved; the gates; issue POST /users/resethwid
ResetOnProfile(r0, prof) ==
  LET r == [r0 EXCEPT !.prof = prof]
  IN IF prof = NoProfile \/ ~HasKey(prof)
       THEN Finish(r, Response(404, "License key not found"))
     ELSE IF QuotaExhausted(prof)
       THEN Finish(r, Response(429, "No HWID resets remaining"))
     ELSE IF CooldownActive(prof, now)
       THEN Finish(r, Response(429, "Cooldown active"))
     ELSE [r EXCEPT !.pc = "r_reset", !.calls = @ + 1]

\* l. 339-374: the request arrives, the token is verified, the row is read
StartReset(p) ==
  /\ CanStart(p)
  /\ ncalls' = ncalls + 1
  /\ \E a \in AuthOutcomes, o \in DbOutcomes :
       inv' = [inv EXCEPT ![p] =
         IF a # "ok" THEN AuthRejected("reset", a)
                     ELSE ResetOnProfile(Begin("reset"), GetProfile(o))]
  /\ UNCHANGED <<now, profile, creds, hist>>

\* l. 371-395: the reset resolves; on success issue the profiles update.
\* The HWID binding itself is not part of the modelled Luarmor record.
ResetCall(p) ==
  /\ At(p, "r_reset")
  /\ \E o \in LuarmorOutcomes :
       inv' = [inv EXCEPT ![p] =
         IF Threw(o)
           THEN Finish([@ EXCEPT !.lu = o], Response(500, "Internal server error"))
         ELSE IF ~ResetOk(o)
           THEN Finish([@ EXCEPT !.lu = o], Response(502, "Failed to reset HWID"))
         ELSE [@ EXCEPT !.pc = "r_write", !.writes = @ + 1, !.lu = o,
                        !.newRem = NewResetsRemaining(inv[p].prof),
                        !.stamp = now]]
  /\ UNCHANGED <<now, profile, creds, ncalls, hist>>

\* l. 389-401: the profiles update resolves; its error is not inspected
ResetWrite(p) ==
  /\ At(p, "r_write")
  /\ \E o \in DbOutcomes :
       /\ profile' = IF o = "ok"
                       THEN [profile EXCEPT !.hwid_resets_remaining = inv[p].newRem,
                                            !.last_hwid_reset = inv[p].stamp]
                       ELSE profile
       /\ inv' = [inv EXCEPT ![p] =
            Finish([@ EXCEPT !.db = o],
                   [Response(200, "") EXCEPT !.resets_remaining = inv[p].newRem])]
  /\ UNCHANGED <<now, creds, ncalls, hist>>

ResetHwid(p) ==
  \/ StartReset(p)
  \/ ResetCall(p)
  \/ ResetWrite(p)

\* ----------------------------------------- GET /api/key-status (l. 416-451)
\* l. 428-430
PlanLapsed(prof, t) ==
  prof.plan_status = "active" /\ prof.plan_expires_at # NULL
    /\ t > prof.plan_expires_at

\* l. 419-432: getProfile resolved; a lapsed plan is marked expired
StatusOnProfile(r0, prof) ==
  LET r == [r0 EXCEPT !.prof = prof, !.nowMs = now]
  IN IF prof = NoProfile
       THEN Finish(r, Response(404, "Profile not found"))
     ELSE IF PlanLapsed(prof, now)
       THEN [r EXCEPT !.pc = "g_write", !.writes = @ + 1]
     ELSE Finish(r, [Response(200, "") EXCEPT
                       !.key = prof.luarmor_key,
                       !.plan_status = prof.plan_status,
                       !.expires_at = prof.plan_expires_at,
                       !.resets_remaining = prof.hwid_resets_remaining])

\* l. 416-432: the request arrives, the token is verified, the row is read
StartStatus(p) ==
  /\ CanStart(p)
  /\ ncalls' = ncalls + 1
  /\ \E a \in AuthOutcomes, o \in DbOutcomes :
       inv' = [inv EXCEPT ![p] =
         IF a # "ok" THEN AuthRejected("status", a)
                     ELSE StatusOnProfile(Begin("status"), GetProfile(o))]
  /\ UNCHANGED <<now, profile, creds, hist>>

\* l. 432-446: the update resolves (its error is not inspected); respond
StatusWrite(p) ==
  /\ At(p, "g_write")
  /\ \E o \in DbOutcomes :
       /\ profile' = IF o = "ok" THEN [profile EXCEPT !.plan_status = "expired"]
                                 ELSE profile
       /\ inv' = [inv EXCEPT ![p] =
            Finish([@ EXCEPT !.db = o], [Response(200, "") EXCEPT
                    !.key = inv[p].prof.luarmor_key,
                    !.plan_status = "expired",
                    !.expires_at = inv[p].prof.plan_expires_at,
                    !.resets_remaining = inv[p].prof.hwid_resets_remaining])]
  /\ UNCHANGED <<now, creds, ncalls, hist>>

GetStatus(p) ==
  \/ StartStatus(p)
  \/ StatusWrite(p)

\* ------------------------------------------------------- the specification
Next ==
  \/ \E p \in Procs : Return(p)
  \/ Tick
  \/ \E p \in Procs : Provision(p)
  \/ \E p \in Procs : Activate(p)
  \/ \E p \in Procs : ResetHwid(p)
  \/ \E p \in Procs : GetStatus(p)

Spec == Init /\ [][Next]_vars

\* ============================================================= properties
Done(p, kind) == inv[p].pc = "done" /\ inv[p].kind = kind
Succeeded(p) == inv[p].resp.status \in {200, 201}
Failed(p) == inv[p].resp.status >= 400
LiveCreds == {k \in DOMAIN creds : creds[k].alive}
\* Credentials whose key Luarmor's reply delivered to a handler.
KnownCreds == {k \in LiveCreds : creds[k].replied}

\* C1: after a Provision invocation that ended in failure, the credential
\* whose key its create call returned is either deleted or carries the
\* sentinel expiry.
C1_NoLiveOrphanAfterFailedProvision ==
  \A p \in Procs :
    (Done(p, "provision") /\ Failed(p) /\ inv[p].userKey # NULL)
      => LET k == inv[p].userKey
         IN ~creds[k].alive \/ creds[k].expire = SentinelExpire

\* C2: a Provision invocation for a profile that already holds a license key
\* (Provision invocations never overlapping) returns that key, issues no
\* Luarmor request, leaves the profile as it was, and exactly one credential
\* exists at Luarmor for the user.
C2_ProvisionIdempotent ==
  \A p \in Procs :
    (Done(p, "provision") /\ HasKey(inv[p].prof) /\ ~hist.provOverlap)
      => /\ inv[p].resp.status = 200
         /\ inv[p].resp.key = inv[p].prof.luarmor_key
         /\ inv[p].calls = 0
         /\ inv[p].writes = 0
         /\ profile = inv[p].prof
         /\ Cardinality(KnownCreds) = 1

\* The part of C2 that is about the short-circuit alone holds, overlapping
\* invocations included.
C2_ShortCircuitOnly ==
  \A p \in Procs :
    (Done(p, "provision") /\ HasKey(inv[p].prof))
      => /\ inv[p].resp.status = 200
         /\ inv[p].resp.key = inv[p].prof.luarmor_key
         /\ inv[p].calls = 0
         /\ inv[p].writes = 0
         /\ inv[p].ck = NULL
         /\ profile = inv[p].prof

\* C3: as long as no two Provision invocations overlapped, then whenever no
\* Provision invocation is in progress at most one credential has been
\* created at Luarmor and left existing.
C3_AtMostOneCredentialSequential ==
  (~hist.provOverlap
     /\ \A p \in Procs : ~(inv[p].kind = "provision" /\ Running(p)))
    => Cardinality(KnownCreds) <= 1

\* C4: a successful Activate extends from the stored expiry exactly when the
\* stored status is active and the stored expiry is later than now, and from
\* now otherwise; the result is what Luarmor was patched to and what the
\* profile holds.
C4_ExtendOrSet ==
  \A p \in Procs :
    (Done(p, "activate") /\ Succeeded(p)) =>
      LET r == inv[p]
          T == r.prof.plan_expires_at
          extends == r.prof.plan_status = "active" /\ T # NULL /\ T > r.nowMs
          base == IF extends THEN T \div 1000 ELSE r.nowMs \div 1000
          expiry == base + r.body.plan_days * 86400
      IN /\ r.patched = expiry
         /\ profile.plan_expires_at = expiry * 1000
         /\ r.resp.expires_at = expiry * 1000
         /\ profile.plan_status = "active"

C4_Witness_Extended ==
  \E p \in Procs :
    /\ Done(p, "activate") /\ Succeeded(p)
    /\ inv[p].prof.plan_status = "active"
    /\ inv[p].prof.plan_expires_at > inv[p].nowMs
    /\ inv[p].nowMs > Now0

\* C5: an Activate invocation whose Luarmor PATCH did not succeed issues no
\* profile update and ends in failure.
C5_NoWriteOnPatchFailure ==
  \A p \in Procs :
    (Done(p, "activate") /\ inv[p].calls = 1 /\ inv[p].lu # "ok")
      => /\ inv[p].writes = 0
         /\ inv[p].db = "none"
         /\ Failed(p)

C5_Witness_PatchRefused ==
  \E p \in Procs :
    /\ Done(p, "activate") /\ inv[p].calls = 1 /\ inv[p].lu = "nosuccess"
    /\ profile.plan_status = "active"

\* C6: an active profile never records a later expiry than the one Luarmor
\* holds for the profile's key.
C6_ProfileWithinProviderGrant ==
  (profile.plan_status = "active" /\ profile.plan_expires_at # NULL
     /\ HasKey(profile))
    => \/ creds[profile.luarmor_key].expire = Lifetime
       \/ creds[profile.luarmor_key].expire * 1000 >= profile.plan_expires_at

\* C7: in Provision, Activate and ResetHwid, a failed profile update after a
\* successful Luarmor mutation is reported as a persistence failure.
PersistenceFailure(resp) ==
  /\ resp.status = 500
  /\ resp.error \in {"Failed to save key in database",
                     "Plan activated on Luarmor but database update failed"}

C7_PersistenceFailureReported ==
  \A p \in Procs :
    (inv[p].pc = "done" /\ inv[p].kind \in {"provision", "activate", "reset"}
       /\ inv[p].lu = "ok" /\ inv[p].db = "err")
      => PersistenceFailure(inv[p].resp)

\* C8: with an initial quota k, at most k ResetHwid invocations succeed.
SuccessfulResets ==
  hist.nresets + Cardinality({p \in Procs : Done(p, "reset") /\ Succeeded(p)})

C8_ResetsWithinQuota ==
  hist.k0 # NULL => SuccessfulResets <= hist.k0

\* C9: a ResetHwid invocation that arrived less than 24 hours after an
\* earlier one succeeded does not succeed.
C9_NoTwoResetsWithin24h ==
  \A p \in Procs :
    (Done(p, "reset") /\ Succeeded(p) /\ hist.lastOk # NULL)
      => inv[p].t0 >= hist.lastOk + CooldownMs

\* C10 as stated: a ResetHwid invocation that read a counter that is not null
\* and <= 0 fails with Quota Exhausted, with no Luarmor call and no profile
\* update; a null counter never gives Quota Exhausted.
IsQuotaExhausted(resp) ==
  resp.status = 429 /\ resp.error = "No HWID resets remaining"

C10_QuotaGate_AsStated ==
  \A p \in Procs :
    (Done(p, "reset") /\ inv[p].prof # NoProfile) =>
      LET n == inv[p].prof.hwid_resets_remaining
      IN /\ (n # NULL /\ n <= 0)
              => (IsQuotaExhausted(inv[p].resp) /\ inv[p].calls = 0
                    /\ inv[p].writes = 0)
         /\ n = NULL => ~IsQuotaExhausted(inv[p].resp)

\* C10 amended: the same for a profile that holds a license key (a profile
\* without one is answered Not Found first); then as well nothing is called
\* or written.
C10_QuotaGate ==
  \A p \in Procs :
    (Done(p, "reset") /\ inv[p].prof # NoProfile) =>
      LET n == inv[p].prof.hwid_resets_remaining
      IN /\ (n # NULL /\ n <= 0)
              => /\ inv[p].calls = 0
                 /\ inv[p].writes = 0
                 /\ Failed(p)
                 /\ HasKey(inv[p].prof) => IsQuotaExhausted(inv[p].resp)
         /\ n = NULL => ~IsQuotaExhausted(inv[p].resp)

C10_Witness_QuotaExhausted ==
  \E p \in Procs :
    /\ Done(p, "reset") /\ IsQuotaExhausted(inv[p].resp)
    /\ hist.nresets > 0

\* C11: a ResetHwid invocation whose Luarmor reset did not succeed (refused,
\* or failed in transport) issues no profile update: neither the counter nor
\* the time of the last reset is written by it, and it ends in failure.
C11_NoWriteOnResetFailure ==
  \A p \in Procs :
    (Done(p, "reset") /\ inv[p].calls = 1 /\ inv[p].lu # "ok")
      => /\ inv[p].writes = 0
         /\ inv[p].db = "none"
         /\ inv[p].newRem = NULL /\ inv[p].stamp = NULL
         /\ Failed(p)

C11_Witness_ResetRefused ==
  \E p \in Procs :
    /\ Done(p, "reset") /\ inv[p].calls = 1 /\ inv[p].lu = "nosuccess"
    /\ inv[p].prof.hwid_resets_remaining = 1
    /\ profile.hwid_resets_remaining = 1 /\ profile.last_hwid_reset = NULL

\* C12: a GetStatus invocation that read a profile with plan_status active
\* and plan_expires_at in the past answers plan_status expired, and when it
\* returns the profile holds plan_status expired.
C12_LapsedPlanReconciled ==
  \A p \in Procs :
    (Done(p, "status") /\ inv[p].prof.plan_status = "active"
       /\ inv[p].prof.plan_expires_at # NULL
       /\ inv[p].prof.plan_expires_at < inv[p].nowMs)
      => /\ inv[p].resp.status = 200
         /\ inv[p].resp.plan_status = "expired"
         /\ profile.plan_status = "expired"

\* C13: an invocation that ends on a Luarmor request that did not succeed
\* reports a provider failure (502), whether Luarmor refused the request or
\* the request failed in transport.
IsProviderFailure(resp) == resp.status = 502

C13_ProviderFailureUniform ==
  \A p \in Procs :
    (inv[p].pc = "done" /\ inv[p].calls >= 1 /\ inv[p].writes = 0
       /\ inv[p].lu \in {"nosuccess", "unsent", "lost"})
      => IsProviderFailure(inv[p].resp)

\* C14: a Provision invocation whose expiry PATCH was refused, and which
\* therefore issued the compensating DELETE, reports the failure of the PATCH
\* whatever became of the DELETE.
C14_DeleteFailureNotMasking ==
  \A p \in Procs :
    (Done(p, "provision") /\ inv[p].calls = 3)
      => inv[p].resp = Response(502, "Failed to configure license key")

\* C15: once the profile's license key is set, no step changes it.
C15_LicenseKeySetOnce ==
  [][HasKey(profile) => profile'.luarmor_key = profile.luarmor_key]_vars

\* C16: the stored hwid_resets_remaining, once not null, never increases
\* from one state to the next.
C16_QuotaNeverIncreases ==
  [][profile.hwid_resets_remaining # NULL
       => /\ profile'.hwid_resets_remaining # NULL
          /\ profile'.hwid_resets_remaining <= profile.hwid_resets_remaining]_vars

\* C17: the stored hwid_resets_remaining (starting null or >= 0) is never
\* negative.
C17_QuotaNeverNegative ==
  profile.hwid_resets_remaining # NULL => profile.hwid_resets_remaining >= 0

\* Two resets that both read the last remaining reset have both succeeded
\* and the counter they wrote is 0.
C17_Witness_LastResetTakenTwice ==
  \E p \in Procs :
    /\ Done(p, "reset") /\ Succeeded(p) /\ inv[p].db = "ok"
    /\ inv[p].prof.hwid_resets_remaining = 1
    /\ hist.nresets >= 1 /\ hist.k0 = 1
    /\ profile.hwid_resets_remaining = 0

\* C18: while no Activate invocation has had its PATCH applied to the key the
\* profile stores, Luarmor holds the sentinel expiry for that key.
C18_FreshKeyGrantsNoAccess ==
  (HasKey(profile) /\ profile.luarmor_key \notin hist.activated)
    => /\ creds[profile.luarmor_key].alive
       /\ creds[profile.luarmor_key].expire = SentinelExpire

\* A Provision invocation has just created, expired and stored a key.
C18_Witness_JustProvisioned ==
  \E p \in Procs :
    /\ Done(p, "provision") /\ inv[p].resp.status = 201
    /\ profile.luarmor_key = inv[p].userKey
    /\ hist.activated = {}

\* C19: when an Activate invocation succeeds on the same row contents that an
\* earlier successful Activate invocation had read, the expiry it stores is
\* its own base plus its own days only, short of that base plus the days of
\* both.
C19_LostUpdate ==
  \A p \in Procs :
    (Done(p, "activate") /\ Succeeded(p) /\ hist.lastAct.prof = inv[p].prof) =>
      LET r == inv[p]
          base == BaseTimestamp(r.prof, ToUnix(r.nowMs))
      IN /\ profile.plan_expires_at = ToISO(base + r.body.plan_days * DaySeconds)
         /\ profile.plan_expires_at
              < ToISO(base + (r.body.plan_days + hist.lastAct.days) * DaySeconds)

\* Both invocations read the same unexpired plan, both answered 200, and the
\* profile and Luarmor hold the old expiry plus the days of one of them.
C19_Witness_BothSucceededOneCounted ==
  \E p \in Procs :
    /\ Done(p, "activate") /\ Succeeded(p) /\ hist.lastAct.prof = inv[p].prof
    /\ inv[p].prof.plan_status = "active"
    /\ inv[p].prof.plan_expires_at > inv[p].nowMs
    /\ LET old == ToUnix(inv[p].prof.plan_expires_at)
       IN /\ hist.lastAct.newExp = old + hist.lastAct.days * DaySeconds
          /\ profile.plan_expires_at = ToISO(old + inv[p].body.plan_days * DaySeconds)
          /\ creds[profile.luarmor_key].expire = old + inv[p].body.plan_days * DaySeconds

\* C20: the profile never holds plan_status expired together with a
\* plan_expires_at that is still in the future.
C20_ExpiredOnlyWhenPast ==
  (profile.plan_status = "expired" /\ profile.plan_expires_at # NULL)
    => profile.plan_expires_at <= now

====
